---- MODULE Spec2Model ----
(***************************************************************************)
(* Model of the Lazorkit passkey demo: deterministic wallet derivation     *)
(* (lib/solana deriveKeypairFromPasskey / createWalletFromPasskey) and the *)
(* sponsored ("gasless") memo transaction flow (createMemoTransaction,     *)
(* sendSponsoredTransaction, executeGaslessTransaction).                    *)
(*                                                                         *)
(* Cryptographic values are symbolic: a keypair is its 32-byte seed (or a  *)
(* fresh random token), a public key is <<"pub", seed>>, a base58 string   *)
(* is <<"b58", value>>, a signature is a record naming signer and message. *)
(***************************************************************************)
EXTENDS Integers, Sequences, FiniteSets, TLC

VARIABLES
    derived,    \* history of derivation calls (input, result), kept across runs
    rng,        \* number of random keypairs drawn so far (Keypair.generate)
    run,        \* index of the current process run
    env,        \* process.env.LAZORKIT_SPONSOR_PRIVATE_KEY
    storage,    \* localStorage: passkey_credential_id, wallet_address, wallet_public_key
    wallet,     \* the page's LazorkitWallet (useState in the Home page)
    flows,      \* the calls of the transaction functions, one record each
    submitted,  \* the wire transactions handed to connection.sendRawTransaction
    auth,       \* the calls of createLazorkitWallet / recoverLazorkitWallet
    created,    \* what the latest successful createLazorkitWallet stored (history)
    gasless,    \* the state of the GaslessTransaction component
    display,    \* the state of the WalletDisplay component and its balance loads
    responses   \* the responses of the wallet API route, in order

dvars == <<derived, rng, run>>
avars == <<env, storage, wallet, flows, submitted>>
xvars == <<auth, created, gasless, display, responses>>
vars == <<derived, rng, run, env, storage, wallet, flows, submitted,
          auth, created, gasless, display, responses>>

(***************************************************************************)
(* Bounds of the model                                                     *)
(***************************************************************************)
MaxShortLen == 3        \* short credential keys have length 0..MaxShortLen
MaxExtra == 1           \* long credential keys have length up to SEED_LEN + MaxExtra
MaxDeriveCalls == 2     \* derivation calls recorded in the history
MaxRand == 1            \* random keypairs drawn between derivations
MaxFlows == 2           \* calls of the transaction functions
MaxDirect == 1          \* of which called directly, not by the application
MaxCalls == 2           \* calls of createLazorkitWallet / recoverLazorkitWallet
MaxRequests == 2        \* requests to the wallet API route
MaxLoads == 3           \* calls of loadBalance by one WalletDisplay
MaxKeypairs == 3        \* random keypairs the application draws
MaxRuns == 1            \* process restarts

(***************************************************************************)
(* Program constants                                                       *)
(***************************************************************************)
SEED_LEN == 32          \* new Uint8Array(32), loop bound i < 32
SEED_MUL == 7           \* positional constant i * 7

\* the JavaScript value undefined, and a number n, as values read from an array
Undefined == [defined |-> FALSE, value |-> 0]
Num(n) == [defined |-> TRUE, value |-> n]

(***************************************************************************)
(* JavaScript number semantics used by the derivation loop                 *)
(***************************************************************************)
RECURSIVE BitXor(_, _)
\* a ^ b on non-negative 32-bit operands
BitXor(a, b) ==
    IF a = 0 THEN b
    ELSE IF b = 0 THEN a
    ELSE (((a % 2) + (b % 2)) % 2) + 2 * BitXor(a \div 2, b \div 2)

\* ToInt32 of an operand of ^: undefined (an out-of-range / NaN index read)
\* converts to 0
ToInt32(v) == IF v.defined THEN v.value ELSE 0

\* store into a Uint8Array element: value modulo 2^8
ToUint8(v) == v % 256

\* passkeyPublicKey[i % passkeyPublicKey.length]: i % 0 is NaN and the
\* indexed read of a typed array at NaN yields undefined
TypedArrayGet(arr, i) ==
    IF Len(arr) = 0 THEN Undefined ELSE Num(arr[(i % Len(arr)) + 1])

(***************************************************************************)
(* Symbolic ed25519 / base58                                               *)
(***************************************************************************)
\* Keypair.fromSeed(seed): the keypair is determined by the seed
KeypairFromSeed(seed) == [secret |-> seed, publicKey |-> <<"pub", seed>>]

\* Keypair.generate(): a keypair from fresh randomness, the n-th draw
KeypairGenerate(n) == KeypairFromSeed(<<"rand", n>>)

\* publicKey.toBase58() / bs58.encode(publicKey.toBytes())
ToBase58(pk) == <<"b58", pk>>

(***************************************************************************)
(* deriveKeypairFromPasskey                                                *)
(***************************************************************************)
\* the loop body with the index taken without "% length" (a fault): reads
\* past the end of a short key yield undefined
SeedByte_nowrap(passkeyPublicKey, i) ==
    ToUint8(BitXor(ToInt32(IF i < Len(passkeyPublicKey)
                           THEN Num(passkeyPublicKey[i + 1]) ELSE Undefined),
                   i * SEED_MUL))

\* one iteration of the loop body: seed[i] = key[i % key.length] ^ (i * 7)
SeedByte(passkeyPublicKey, i) ==
    ToUint8(BitXor(ToInt32(TypedArrayGet(passkeyPublicKey, i)), i * SEED_MUL))

\* the seed after the loop for (i = 0; i < 32; i++)
DeriveSeed(passkeyPublicKey) ==
    [k \in 1..SEED_LEN |-> SeedByte(passkeyPublicKey, k - 1)]

\* a derivation that mixes process randomness into the seed (a fault)
deriveKeypairFromPasskey_rng(passkeyPublicKey) ==
    [ok |-> TRUE,
     keypair |-> KeypairFromSeed(
        [k \in 1..SEED_LEN |->
            ToUint8(SeedByte(passkeyPublicKey, k - 1) + rng + run)])]

\* the function has no input check and no throwing statement: it returns a
\* keypair for every Uint8Array, the empty one included
deriveKeypairFromPasskey(passkeyPublicKey) ==
    [ok |-> TRUE, keypair |-> KeypairFromSeed(DeriveSeed(passkeyPublicKey))]

\* createWalletFromPasskey: keypair, address and publicKey strings
createWalletFromPasskey(passkeyPublicKey) ==
    LET r == deriveKeypairFromPasskey(passkeyPublicKey) IN
    IF r.ok
    THEN [ok |-> TRUE,
          keypair |-> r.keypair,
          address |-> ToBase58(r.keypair.publicKey),
          publicKey |-> ToBase58(r.keypair.publicKey)]
    ELSE [ok |-> FALSE]

(***************************************************************************)
(* Credential public keys fed to the derivation                            *)
(***************************************************************************)
\* the byte pattern c, c+s, c+2s, ... of length n
Pattern(n, c, s) == [k \in 1..n |-> (c + (k - 1) * s) % 256]

\* b with bit `bit` of the byte at position pos (1-based) inverted
FlipBit(b, pos, bit) ==
    LET w == 2 ^ bit
        v == b[pos]
    IN [b EXCEPT ![pos] = IF (v \div w) % 2 = 1 THEN v - w ELSE v + w]

\* lengths 0..MaxShortLen (shorter than the seed, 0 and 1 included) and
\* SEED_LEN..SEED_LEN + MaxExtra (as long as the seed, and longer)
InputLens == (0..MaxShortLen) \cup (SEED_LEN..(SEED_LEN + MaxExtra))

BaseInputs == {Pattern(n, 1, 1) : n \in InputLens}

FlipBits == {0}

\* the keys fed to the derivation: 1,2,3,...,n and the same with the lowest
\* bit of the last byte inverted
CredentialKeys ==
    BaseInputs \cup
    {FlipBit(b, Len(b), bit) : <<b, bit>> \in (BaseInputs \ {<<>>}) \X FlipBits}

(***************************************************************************)
(* Derivation calls, random draws and process restarts                     *)
(***************************************************************************)
DInit ==
    /\ derived = <<>>
    /\ rng = 0
    /\ run = 0

\* a call createWalletFromPasskey(b); the history records input and result
DeriveCall(b) ==
    /\ Len(derived) < MaxDeriveCalls
    /\ derived' = Append(derived, [input |-> b, run |-> run, rng |-> rng,
                                   result |-> createWalletFromPasskey(b)])
    /\ UNCHANGED <<rng, run>>
    /\ UNCHANGED avars
    /\ UNCHANGED xvars

\* some other operation draws a random keypair (Keypair.generate) between two
\* derivations
DrawRandom ==
    /\ Len(derived) \in 1..(MaxDeriveCalls - 1)
    /\ rng < MaxRand
    /\ rng' = rng + 1
    /\ UNCHANGED <<derived, run>>
    /\ UNCHANGED avars
    /\ UNCHANGED xvars

\* the process ends and a new one starts, between two derivations
Restart ==
    /\ Len(derived) \in 1..(MaxDeriveCalls - 1)
    /\ run < MaxRuns
    /\ run' = run + 1
    /\ UNCHANGED <<derived, rng>>
    /\ UNCHANGED avars
    /\ UNCHANGED xvars

DNext ==
    \/ \E b \in CredentialKeys : DeriveCall(b)
    \/ DrawRandom
    \/ Restart


(***************************************************************************)
(* Properties of the derivation (checked under SpecDerive)                 *)
(***************************************************************************)
Calls == 1..Len(derived)

\* bit k of the byte v
BitOf(v, k) == (v \div (2 ^ k)) % 2

\* exclusive or of two bytes, bit by bit
XorOfBytes(x, y) ==
    LET f[k \in 0..8] ==
            IF k = 8 THEN 0
            ELSE (IF BitOf(x, k) # BitOf(y, k) THEN 2 ^ k ELSE 0) + f[k + 1]
    IN f[0]

\* number of bit positions in which two equally long byte sequences differ
BitDistance(b1, b2) ==
    LET g[p \in 0..Len(b1)] ==
            IF p = 0 THEN 0
            ELSE g[p - 1] + Cardinality({k \in 0..7 : BitOf(b1[p], k) # BitOf(b2[p], k)})
    IN g[Len(b1)]

C2_SeedFormula ==
    \A c \in Calls :
        LET b == derived[c].input
            n == Len(b)
            r == derived[c].result
        IN n >= 1 =>
            /\ r.ok
            /\ DOMAIN r.keypair.secret = 1..32
            /\ \A i \in 0..31 :
                /\ r.keypair.secret[i + 1] = XorOfBytes(b[(i % n) + 1], (i * 7) % 256)
                /\ r.keypair.secret[i + 1] \in 0..255

\* derivations of a one-byte key and of a key shorter than the seed whose
\* length does not divide 32 have both been made
C2_Witness ==
    /\ \E c \in Calls : Len(derived[c].input) = 1 /\ derived[c].result.ok
    /\ \E c \in Calls : Len(derived[c].input) = 3 /\ derived[c].result.ok

\* C3: a derivation of the empty byte sequence fails and yields no keypair.
C3_EmptyInputRejected ==
    \A c \in Calls : Len(derived[c].input) = 0 => ~derived[c].result.ok

\* C4: two non-empty inputs of equal length that differ in exactly one bit
\* have seeds that differ in at least one byte position.
C4_SingleBitChangesSeed ==
    \A i, j \in Calls :
        LET b1 == derived[i].input
            b2 == derived[j].input
        IN (/\ Len(b1) >= 1
            /\ Len(b1) = Len(b2)
            /\ BitDistance(b1, b2) = 1
            /\ derived[i].result.ok
            /\ derived[j].result.ok)
           => \E k \in 1..32 :
                derived[i].result.keypair.secret[k] # derived[j].result.keypair.secret[k]

(***************************************************************************)
(* Values of the transaction functions                                     *)
(***************************************************************************)
\* a keypair / public key that is not there (null, undefined)
NoSeed == <<"none">>
NoKeypair == KeypairFromSeed(NoSeed)
NoKey == NoKeypair.publicKey

\* new PublicKey(address): the key a base58 string encodes
PublicKeyFromBase58(address) == address[2]

\* the public key of a well-known program, new PublicKey('<base58 literal>')
ProgramKey(literal) == <<"pub", <<"program", literal, "", "">>>>

MEMO_PROGRAM_ID == ProgramKey("MemoSq4gqABAXKb96qnH8TysNcWxMyWCqXgDLGmfcHr")
SYSTEM_PROGRAM_ID == ProgramKey("11111111111111111111111111111111")

\* recentBlockhash of a new Transaction() (undefined), and the empty string
UnsetHash == "<undefined>"
EmptyHash == ""
\* the blockhashes connection.getLatestBlockhash() may resolve to
Blockhashes == {"H1", "H2", EmptyHash}

\* UTF-8 bytes of one Unicode scalar value
Utf8OfCodePoint(c) ==
    IF c < 128 THEN <<c>>
    ELSE IF c < 2048 THEN <<192 + (c \div 64), 128 + (c % 64)>>
    ELSE IF c < 65536
         THEN <<224 + (c \div 4096), 128 + ((c \div 64) % 64), 128 + (c % 64)>>
    ELSE <<240 + (c \div 262144), 128 + ((c \div 4096) % 64),
           128 + ((c \div 64) % 64), 128 + (c % 64)>>

RECURSIVE BufferFromUtf8(_)
\* Buffer.from(memo, 'utf-8') of a well-formed string, given as its scalar values
BufferFromUtf8(str) ==
    IF str = <<>> THEN <<>>
    ELSE Utf8OfCodePoint(Head(str)) \o BufferFromUtf8(Tail(str))

\* the note texts typed into the memo field: "Hi" and "e-acute, grinning face"
Memos == {<<72, 105>>, <<233, 128512>>}

(***************************************************************************)
(* @solana/web3.js Transaction, as the functions of lib/solana use it       *)
(***************************************************************************)
\* new Transaction()
NewTransaction ==
    [instructions |-> <<>>, feePayer |-> NoKey, recentBlockhash |-> UnsetHash,
     signatures |-> <<>>]

\* transaction.add(instruction)
TxAdd(tx, instruction) ==
    [tx EXCEPT !.instructions = Append(@, instruction)]

\* a signature slot without a signature
NoSignature == [signer |-> NoKey, message |-> <<>>]

\* nacl sign(signData, secretKey): only the holder of the secret makes it
Sign(message, keypair) == [signer |-> keypair.publicKey, message |-> <<message>>]

\* the index of the first element of seq satisfying Test, 0 when there is none
FirstIndex(seq, Test(_)) ==
    IF \E i \in 1..Len(seq) : Test(seq[i])
    THEN CHOOSE i \in 1..Len(seq) :
            Test(seq[i]) /\ \A j \in 1..(i - 1) : ~Test(seq[j])
    ELSE 0

\* seq without its elements that fail Test, order kept
SelectOrdered(seq, Test(_)) ==
    LET F[i \in 0..Len(seq)] ==
            IF i = 0 THEN <<>>
            ELSE F[i - 1] \o (IF Test(seq[i]) THEN <<seq[i]>> ELSE <<>>)
    IN F[Len(seq)]

\* the account metas of all instructions, then one per program id
AccountMetas(tx) ==
    LET RECURSIVE Keys(_)
        Keys(ins) == IF ins = <<>> THEN <<>> ELSE Head(ins).keys \o Keys(Tail(ins))
        RECURSIVE Programs(_, _)
        Programs(ins, seen) ==
            IF ins = <<>> THEN <<>>
            ELSE IF Head(ins).programId \in seen THEN Programs(Tail(ins), seen)
            ELSE <<[pubkey |-> Head(ins).programId, isSigner |-> FALSE,
                    isWritable |-> FALSE]>>
                 \o Programs(Tail(ins), seen \cup {Head(ins).programId})
    IN Keys(tx.instructions) \o Programs(tx.instructions, {})

\* "Cull duplicate account metas": one meta per key, the flags or-ed
UniqueMetas(metas) ==
    LET firsts == SelectOrdered([i \in 1..Len(metas) |-> i],
                    LAMBDA i : \A j \in 1..(i - 1) : metas[j].pubkey # metas[i].pubkey)
    IN [n \in 1..Len(firsts) |->
            LET key == metas[firsts[n]].pubkey IN
            [pubkey |-> key,
             isSigner |-> \E j \in 1..Len(metas) :
                            metas[j].pubkey = key /\ metas[j].isSigner,
             isWritable |-> \E j \in 1..Len(metas) :
                            metas[j].pubkey = key /\ metas[j].isWritable]]

\* the sort "by signer, then by writable" (stable; the transactions built here
\* never hold two keys of one class, so the final tie-break by base58 string
\* never decides)
SortMetas(metas) ==
    SelectOrdered(metas, LAMBDA m : m.isSigner /\ m.isWritable)
    \o SelectOrdered(metas, LAMBDA m : m.isSigner /\ ~m.isWritable)
    \o SelectOrdered(metas, LAMBDA m : ~m.isSigner /\ m.isWritable)
    \o SelectOrdered(metas, LAMBDA m : ~m.isSigner /\ ~m.isWritable)

\* "Move fee payer to the front", as signer and writable
PayerFirst(metas, feePayer) ==
    <<[pubkey |-> feePayer, isSigner |-> TRUE, isWritable |-> TRUE]>>
    \o SelectOrdered(metas, LAMBDA m : m.pubkey # feePayer)

\* the fee payer compileMessage uses: this.feePayer, else the key of the
\* first signature slot
FeePayerOf(tx) ==
    IF tx.feePayer # NoKey THEN tx.feePayer
    ELSE IF Len(tx.signatures) > 0 THEN tx.signatures[1].publicKey
    ELSE NoKey

\* the message compiled from the ordered account metas
MessageOf(tx, metas) ==
    [numRequiredSignatures |->
        Cardinality({i \in 1..Len(metas) :
            metas[i].isSigner
            \/ \E j \in 1..Len(tx.signatures) :
                tx.signatures[j].publicKey = metas[i].pubkey}),
     accountKeys |-> [i \in 1..Len(metas) |-> metas[i].pubkey],
     recentBlockhash |-> tx.recentBlockhash,
     instructions |->
        [i \in 1..Len(tx.instructions) |->
            [programId |-> tx.instructions[i].programId,
             accounts |-> [k \in 1..Len(tx.instructions[i].keys) |->
                            tx.instructions[i].keys[k].pubkey],
             data |-> tx.instructions[i].data]]]

\* "Disallow unknown signers": a signature slot whose key is no account
HasUnknownSigner(tx, metas) ==
    \E i \in 1..Len(tx.signatures) :
        \A k \in 1..Len(metas) : metas[k].pubkey # tx.signatures[i].publicKey

NoMessage ==
    [numRequiredSignatures |-> 0, accountKeys |-> <<>>, recentBlockhash |-> UnsetHash,
     instructions |-> <<>>]

\* compileMessage once the account metas are ordered
CompileWith(tx, metas) ==
    IF HasUnknownSigner(tx, metas)
    THEN [ok |-> FALSE, error |-> "unknown signer", message |-> NoMessage]
    ELSE [ok |-> TRUE, error |-> "", message |-> MessageOf(tx, metas)]

\* Transaction.compileMessage(): the message, or the error it throws
compileMessage(tx) ==
    IF tx.recentBlockhash \in {UnsetHash, EmptyHash}
    THEN [ok |-> FALSE, error |-> "Transaction recentBlockhash required",
          message |-> NoMessage]
    ELSE IF FeePayerOf(tx) = NoKey
    THEN [ok |-> FALSE, error |-> "Transaction fee payer required",
          message |-> NoMessage]
    ELSE CompileWith(tx,
            PayerFirst(SortMetas(UniqueMetas(AccountMetas(tx))), FeePayerOf(tx)))

\* the keys that must sign a compiled message
SignedKeys(message) == SubSeq(message.accountKeys, 1, message.numRequiredSignatures)

\* the signature slots after _compile: kept when they already are the
\* required signers in order, else reset to empty slots
SlotsAfterCompile(tx, signedKeys) ==
    IF /\ Len(tx.signatures) = Len(signedKeys)
       /\ \A i \in 1..Len(signedKeys) : tx.signatures[i].publicKey = signedKeys[i]
    THEN tx.signatures
    ELSE [i \in 1..Len(signedKeys) |->
            [publicKey |-> signedKeys[i], signature |-> NoSignature]]

\* _compile, given the result of compileMessage
CompileFrom(tx, c) ==
    IF ~c.ok THEN [ok |-> FALSE, error |-> c.error, message |-> c.message, tx |-> tx]
    ELSE [ok |-> TRUE, error |-> "", message |-> c.message,
          tx |-> [tx EXCEPT !.signatures = SlotsAfterCompile(tx, SignedKeys(c.message))]]

\* Transaction._compile(): compiles and, unless the signature slots already
\* are the required signers in order, resets them to empty slots
Compile(tx) == CompileFrom(tx, compileMessage(tx))

\* whether a signature slot holds a signature
IsSigned(slot) == slot.signature # NoSignature

\* nacl verify: the signature was made over this message by the slot's key
Verifies(slot, message) ==
    slot.signature = [signer |-> slot.publicKey, message |-> <<message>>]

\* the slot index of a key, 0 when it has none
SlotOf(tx, key) == FirstIndex(tx.signatures, LAMBDA p : p.publicKey = key)

\* _partialSign and _addSignature on the compiled transaction c: the signature
\* over the message goes into the slot `index` of the keypair's key;
\* 'unknown signer' is thrown when it has none
AddSignature(c, keypair, index) ==
    IF ~c.ok THEN [ok |-> FALSE, error |-> c.error, tx |-> c.tx]
    ELSE IF index = 0 THEN [ok |-> FALSE, error |-> "unknown signer", tx |-> c.tx]
    ELSE [ok |-> TRUE, error |-> "",
          tx |-> [c.tx EXCEPT !.signatures[index].signature = Sign(c.message, keypair)]]

\* _partialSign of a compiled transaction
PartialSignCompiled(c, keypair) == AddSignature(c, keypair, SlotOf(c.tx, keypair.publicKey))

\* transaction.partialSign(keypair)
partialSign(tx, keypair) == PartialSignCompiled(Compile(tx), keypair)

\* whether some slot of the compiled transaction lacks a valid signature
SignednessErrors(c) ==
    \E i \in 1..Len(c.tx.signatures) :
        ~IsSigned(c.tx.signatures[i]) \/ ~Verifies(c.tx.signatures[i], c.message)

\* serialize without the signature check, as serialize({requireAllSignatures:
\* false, verifySignatures: false}) (a fault)
SerializeCompiled_unchecked(c) ==
    IF ~c.ok THEN [ok |-> FALSE, error |-> c.error, tx |-> c.tx, wire |-> <<>>]
    ELSE [ok |-> TRUE, error |-> "", tx |-> c.tx,
          wire |-> <<[signatures |-> c.tx.signatures, message |-> c.message]>>]

\* serialize() of a compiled transaction: requireAllSignatures and
\* verifySignatures default to true; a missing or invalid signature throws
SerializeCompiled(c) ==
    IF ~c.ok THEN [ok |-> FALSE, error |-> c.error, tx |-> c.tx, wire |-> <<>>]
    ELSE IF SignednessErrors(c)
    THEN [ok |-> FALSE, error |-> "Signature verification failed", tx |-> c.tx,
          wire |-> <<>>]
    ELSE [ok |-> TRUE, error |-> "", tx |-> c.tx,
          wire |-> <<[signatures |-> c.tx.signatures, message |-> c.message]>>]

\* transaction.serialize()
serialize(tx) == SerializeCompiled(Compile(tx))

(***************************************************************************)
(* lib/solana: building the envelope                                       *)
(***************************************************************************)
LAMPORTS_PER_SOL == 1000000000

\* the little-endian bytes of v, n of them
RECURSIVE LittleEndian(_, _)
LittleEndian(v, n) ==
    IF n = 0 THEN <<>> ELSE <<v % 256>> \o LittleEndian(v \div 256, n - 1)

\* a memo instruction whose account is not flagged as a signer (a fault)
MemoInstruction_unsigned(userWallet, memo) ==
    [keys |-> <<[pubkey |-> userWallet, isSigner |-> FALSE, isWritable |-> FALSE]>>,
     programId |-> MEMO_PROGRAM_ID,
     data |-> BufferFromUtf8(memo)]

\* new TransactionInstruction({keys: [{userWallet, isSigner: true, isWritable:
\* false}], programId: MEMO_PROGRAM_ID, data: Buffer.from(memo, 'utf-8')})
MemoInstruction(userWallet, memo) ==
    [keys |-> <<[pubkey |-> userWallet, isSigner |-> TRUE, isWritable |-> FALSE]>>,
     programId |-> MEMO_PROGRAM_ID,
     data |-> BufferFromUtf8(memo)]

\* SystemProgram.transfer({fromPubkey, toPubkey, lamports})
TransferInstruction(fromPubkey, toPubkey, lamports) ==
    [keys |-> <<[pubkey |-> fromPubkey, isSigner |-> TRUE, isWritable |-> TRUE],
                [pubkey |-> toPubkey, isSigner |-> FALSE, isWritable |-> TRUE]>>,
     programId |-> SYSTEM_PROGRAM_ID,
     data |-> LittleEndian(2, 4) \o LittleEndian(lamports, 8)]

\* createMemoTransaction / createGaslessTransaction up to the await: new
\* Transaction(), add(instruction), feePayer = sponsorKeypair.publicKey
AssembleUnsigned(instruction, userWallet, sponsorKeypair) ==
    [TxAdd(NewTransaction, instruction) EXCEPT !.feePayer = sponsorKeypair.publicKey]

\* the two functions after the await: transaction.recentBlockhash = blockhash
SetBlockhash(tx, blockhash) == [tx EXCEPT !.recentBlockhash = blockhash]

(***************************************************************************)
(* lib/lazorkit: the sponsor wallet                                        *)
(***************************************************************************)
PLACEHOLDER_KEY == "your_base58_encoded_private_key_here"

\* the keypair a configured secret encodes
SponsorSeed == <<"env", "sponsor", "key">>

\* the values of LAZORKIT_SPONSOR_PRIVATE_KEY: unset, the placeholder of the
\* example file, a string that is no secret key, and a base58 secret key
SecretAbsent == [present |-> FALSE, text |-> <<"">>]
SecretPlaceholder == [present |-> TRUE, text |-> <<PLACEHOLDER_KEY>>]
SecretGarbage == [present |-> TRUE, text |-> <<"not-a-secret-key">>]
SecretValid == [present |-> TRUE, text |-> <<"b58", SponsorSeed>>]
EnvSecrets == {SecretAbsent, SecretPlaceholder, SecretGarbage, SecretValid}

\* Keypair.fromSecretKey(bs58.decode(sponsorKey)): throws unless the string is
\* the base58 form of a secret key
DecodeSecret(secret) ==
    IF Len(secret.text) = 2 /\ secret.text[1] = "b58"
    THEN [ok |-> TRUE, keypair |-> KeypairFromSeed(secret.text[2])]
    ELSE [ok |-> FALSE, keypair |-> NoKeypair]

\* a sponsor resolution that ignores the configured secret (a fault)
getSponsorWallet_random ==
    [keypair |-> KeypairGenerate(rng + 1), random |-> TRUE, warned |-> FALSE]

\* getSponsorWallet(): the configured keypair, or a random one; `random` tells
\* that Keypair.generate() was called, `warned` that console.warn was
getSponsorWallet ==
    IF env.present /\ env.text # <<PLACEHOLDER_KEY>> /\ DecodeSecret(env).ok
    THEN [keypair |-> DecodeSecret(env).keypair, random |-> FALSE, warned |-> FALSE]
    ELSE [keypair |-> KeypairGenerate(rng + 1), random |-> TRUE,
          warned |-> env.present /\ env.text # <<PLACEHOLDER_KEY>>]

(***************************************************************************)
(* lib/solana sendSponsoredTransaction, up to its first await              *)
(***************************************************************************)
\* the lifecycle stage an envelope's data put it in: which of its required
\* signers (the instruction signers, the fee payer) have signed
Subjects(tx) ==
    UNION {{tx.instructions[i].keys[k].pubkey :
                k \in {j \in 1..Len(tx.instructions[i].keys) :
                            tx.instructions[i].keys[j].isSigner}} :
            i \in 1..Len(tx.instructions)}

SignedBy(tx) ==
    {tx.signatures[i].publicKey :
        i \in {j \in 1..Len(tx.signatures) : IsSigned(tx.signatures[j])}}

Stage(tx) ==
    LET required == Subjects(tx) \cup {tx.feePayer}
        signed == SignedBy(tx)
    IN IF signed = {} THEN "Assembled"
       ELSE IF required \subseteq signed THEN "FullySigned"
       ELSE IF Subjects(tx) \subseteq signed /\ tx.feePayer \notin signed
            THEN "PartiallySigned"
       ELSE "SponsorOnly"

\* a failure of sendSponsoredTransaction before anything is sent; `error` is
\* the message of the error caught, which the catch block rethrows as
\* 'Transaction failed: ' followed by that message
SignFailure(r, at, stages) ==
    [ok |-> FALSE, error |-> r.error, at |-> at, tx |-> r.tx, wire |-> <<>>,
     stages |-> stages]

\* after both partialSign calls (results s1, s2): serialize(), result s3
AfterSerialize(s1, s2, s3) ==
    IF ~s3.ok THEN SignFailure(s3, "serialize", <<Stage(s1.tx), Stage(s2.tx)>>)
    ELSE [ok |-> TRUE, error |-> "", at |-> "", tx |-> s3.tx, wire |-> s3.wire,
          stages |-> <<Stage(s1.tx), Stage(s2.tx), "Serialized">>]

\* after partialSign(userKeypair) (result s1) and partialSign(sponsorKeypair)
\* (result s2)
AfterSponsorSign(s1, s2) ==
    IF ~s2.ok THEN SignFailure(s2, "sponsor", <<Stage(s1.tx)>>)
    ELSE AfterSerialize(s1, s2, serialize(s2.tx))

\* after partialSign(userKeypair) (result s1)
AfterUserSign(s1, sponsorKeypair) ==
    IF ~s1.ok THEN SignFailure(s1, "subject", <<>>)
    ELSE AfterSponsorSign(s1, partialSign(s1.tx, sponsorKeypair))

\* the statements of sendSponsoredTransaction before sendRawTransaction is
\* called: partialSign(userKeypair), partialSign(sponsorKeypair), serialize();
\* `stages` lists the stage of the envelope after each statement that ran
SignAndSerialize(tx, userKeypair, sponsorKeypair) ==
    AfterUserSign(partialSign(tx, userKeypair), sponsorKeypair)

(***************************************************************************)
(* State of the application and of the calls                               *)
(***************************************************************************)
FlowIds == 1..MaxFlows

\* the calls made directly by a caller of the exported functions
DirectIds == 1..MaxDirect

NoWallet ==
    [present |-> FALSE, address |-> <<>>, publicKey |-> <<>>, credentialId |-> <<>>,
     keypair |-> NoKeypair]

EmptyStorage ==
    [passkey_credential_id |-> <<>>, wallet_address |-> <<>>, wallet_public_key |-> <<>>]

IdleFlow ==
    [pc |-> "idle", kind |-> "none", userWallet |-> NoKey, userKeypair |-> NoKeypair,
     feeSponsor |-> NoKeypair, signSponsor |-> NoKeypair, randomSponsor |-> FALSE,
     warned |-> FALSE,
     memo |-> <<>>, tx |-> NewTransaction, assembled |-> <<>>, life |-> <<>>,
     error |-> "", at |-> "", wire |-> <<>>, result |-> <<>>]

\* the credential keys createPasskey returns to the application
AppCredentialKeys == {Pattern(3, 1, 1)}

\* the credential id the authenticator reports for a credential key
CredentialIdOf(key) == <<"credential", key>>

\* the keypairs and keys a caller of the exported functions passes: the
\* wallet of credential key 1,2,3, the configured sponsor and a third party
UserKp == KeypairFromSeed(DeriveSeed(Pattern(3, 1, 1)))
SponsorKp == KeypairFromSeed(SponsorSeed)
OtherKp == KeypairFromSeed(<<"caller", "other">>)
\* the arguments <<userWallet, sponsorKeypair of create*, userKeypair,
\* sponsorKeypair of sendSponsoredTransaction>> callers pass
CallerArgs ==
    {<<UserKp.publicKey, SponsorKp, UserKp, SponsorKp>>,    \* each signer in its role
     <<UserKp.publicKey, SponsorKp, OtherKp, SponsorKp>>,   \* a third party as subject
     <<UserKp.publicKey, SponsorKp, UserKp, OtherKp>>,      \* a third party as sponsor
     <<UserKp.publicKey, SponsorKp, SponsorKp, SponsorKp>>, \* the fee payer as subject
     <<UserKp.publicKey, SponsorKp, UserKp, UserKp>>,       \* the subject as sponsor
     <<SponsorKp.publicKey, SponsorKp, SponsorKp, SponsorKp>>} \* subject = fee payer

AInit ==
    /\ env \in EnvSecrets
    /\ storage = EmptyStorage
    /\ wallet = NoWallet
    /\ flows = [f \in FlowIds |-> IdleFlow]
    /\ submitted = <<>>

\* a call slot of createLazorkitWallet / recoverLazorkitWallet
CallIds == 1..MaxCalls

IdleAuth == [pc |-> "idle", kind |-> "none", error |-> "", result |-> <<>>]

\* the GaslessTransaction component as mounted: its useState values; `pending`
\* are the calls whose await has not resumed, `sends` the calls in the order
\* they were started (history)
InitialGasless ==
    [isLoading |-> FALSE, status |-> "", signature |-> <<>>, sponsor |-> <<>>,
     feeSaved |-> <<>>, error |-> <<>>, pending |-> {}, sends |-> <<>>]

\* WalletDisplay before its effect has run: useState(null), useState(true), no
\* getWalletBalance call made
InitialDisplay == [balance |-> <<>>, isLoading |-> TRUE, loads |-> <<>>]

XInit ==
    /\ auth = [c \in CallIds |-> IdleAuth]
    /\ created = <<>>
    /\ gasless = InitialGasless
    /\ display = InitialDisplay
    /\ responses = <<>>

Init == DInit /\ AInit /\ XInit

(***************************************************************************)
(* lib/lazorkit: wallets and the session                                   *)
(***************************************************************************)
\* the wallet createLazorkitWallet returns for credential key `key`, lines
\* 72-91: the derived keypair, its address and the credential id
CreatedWallet(key) ==
    LET w == createWalletFromPasskey(key) IN
    [present |-> TRUE, address |-> <<w.address>>, publicKey |-> <<w.publicKey>>,
     credentialId |-> <<CredentialIdOf(key)>>, keypair |-> w.keypair]

\* the session stored without the wallet's public key (a fault)
StoredSession_partial(w) ==
    [passkey_credential_id |-> w.credentialId, wallet_address |-> w.address,
     wallet_public_key |-> <<>>]

\* the three localStorage items createLazorkitWallet sets for wallet w:
\* storeCredentialId(credentialId), wallet_address, wallet_public_key
StoredSession(w) ==
    [passkey_credential_id |-> w.credentialId, wallet_address |-> w.address,
     wallet_public_key |-> w.publicKey]

\* createLazorkitWallet(username) up to its await of createPasskey
CreateStart(c) ==
    /\ auth[c].pc \in {"idle", "done", "failed"}
    /\ auth' = [auth EXCEPT ![c] =
            [pc |-> "registering", kind |-> "create", error |-> "", result |-> <<>>]]
    /\ UNCHANGED <<created, gasless, display, responses>>
    /\ UNCHANGED avars
    /\ UNCHANGED dvars

\* createPasskey resolves with credential key `key`: createLazorkitWallet
\* derives the wallet, stores the session and returns the wallet, which the
\* PasskeyAuth component passes to onAuthSuccess (setWallet)
CreateLazorkitWallet(c, key) ==
    /\ auth[c].pc = "registering"
    /\ createWalletFromPasskey(key).ok
    /\ storage' = StoredSession(CreatedWallet(key))
    /\ created' = <<StoredSession(CreatedWallet(key))>>
    /\ wallet' = CreatedWallet(key)
    /\ auth' = [auth EXCEPT ![c] =
            [@ EXCEPT !.pc = "done", !.result = <<CreatedWallet(key)>>]]
    /\ UNCHANGED <<env, flows, submitted, gasless, display, responses>>
    /\ UNCHANGED dvars

\* the stored session is dropped when the ceremony fails (a fault)
CreateRejected_clearing(c) ==
    /\ auth[c].pc = "registering"
    /\ auth' = [auth EXCEPT ![c] =
            [@ EXCEPT !.pc = "failed", !.error = "Failed to create passkey"]]
    /\ storage' = EmptyStorage
    /\ UNCHANGED <<env, wallet, flows, submitted>>
    /\ UNCHANGED <<created, gasless, display, responses>>
    /\ UNCHANGED dvars

\* createPasskey rejects (the ceremony failed or was cancelled): the error is
\* rethrown, nothing is stored
CreateRejected(c) ==
    /\ auth[c].pc = "registering"
    /\ auth' = [auth EXCEPT ![c] =
            [@ EXCEPT !.pc = "failed", !.error = "Failed to create passkey"]]
    /\ UNCHANGED <<created, gasless, display, responses>>
    /\ UNCHANGED avars
    /\ UNCHANGED dvars

\* recoverLazorkitWallet() up to its await of authenticatePasskey
RecoverStart(c) ==
    /\ auth[c].pc \in {"idle", "done", "failed"}
    /\ auth' = [auth EXCEPT ![c] =
            [pc |-> "authenticating", kind |-> "recover", error |-> "", result |-> <<>>]]
    /\ UNCHANGED <<created, gasless, display, responses>>
    /\ UNCHANGED avars
    /\ UNCHANGED dvars

\* the empty string among the symbolic strings (credential ids, addresses)
EmptyString == <<"">>

\* a recovered wallet whose address is derived from the credential of the
\* ceremony instead of read from storage (a fault)
RecoveredWallet_ofCredential(cid) ==
    [present |-> TRUE, address |-> <<createWalletFromPasskey(cid[2]).address>>,
     publicKey |-> <<createWalletFromPasskey(cid[2]).publicKey>>,
     credentialId |-> <<cid>>,
     keypair |-> KeypairGenerate(rng + 1)]

\* a recovered wallet whose keypair is derived again from the credential key
\* of the wallet stored (a fault)
RecoveredWallet_derived(cid) ==
    [present |-> TRUE, address |-> storage.wallet_address,
     publicKey |-> storage.wallet_public_key,
     credentialId |-> <<cid>>,
     keypair |-> KeypairFromSeed(storage.wallet_address[1][2][2])]

\* the wallet recoverLazorkitWallet returns, lines 128-133: the stored address,
\* the stored public key or '', the credential id of the ceremony, and
\* Keypair.generate() as keypair
RecoveredWallet(cid) ==
    [present |-> TRUE, address |-> storage.wallet_address,
     publicKey |-> IF storage.wallet_public_key = <<>> THEN <<EmptyString>>
                   ELSE storage.wallet_public_key,
     credentialId |-> <<cid>>,
     keypair |-> KeypairGenerate(rng + 1)]

\* authenticatePasskey resolves with credential id `cid`: recoverLazorkitWallet
\* reads the stored address and throws when there is none, else returns the
\* wallet, which the PasskeyAuth component passes to onAuthSuccess (setWallet)
RecoverLazorkitWallet(c, cid) ==
    /\ auth[c].pc = "authenticating"
    /\ IF storage.wallet_address = <<>>
       THEN /\ auth' = [auth EXCEPT ![c] =
                    [@ EXCEPT !.pc = "failed",
                              !.error = "No wallet found. Please create a new wallet."]]
            /\ UNCHANGED <<wallet, rng>>
       ELSE /\ rng < MaxKeypairs
            /\ auth' = [auth EXCEPT ![c] =
                    [@ EXCEPT !.pc = "done", !.result = <<RecoveredWallet(cid)>>]]
            /\ wallet' = RecoveredWallet(cid)
            /\ rng' = rng + 1
    /\ UNCHANGED <<env, storage, flows, submitted, derived, run>>
    /\ UNCHANGED <<created, gasless, display, responses>>

\* authenticatePasskey rejects: the error is rethrown
RecoverRejected(c) ==
    /\ auth[c].pc = "authenticating"
    /\ auth' = [auth EXCEPT ![c] =
            [@ EXCEPT !.pc = "failed", !.error = "Failed to authenticate with passkey"]]
    /\ UNCHANGED <<created, gasless, display, responses>>
    /\ UNCHANGED avars
    /\ UNCHANGED dvars

\* localStorage.getItem(...) is falsy: null, or the empty string
NoItem(item) == item = <<>> \/ item = <<EmptyString>>

\* hasExistingSession(): !!(credentialId && walletAddress)
hasExistingSession ==
    ~NoItem(storage.passkey_credential_id) /\ ~NoItem(storage.wallet_address)

\* clearWalletSession(): the three removeItem calls
ClearWalletSession ==
    /\ storage' = EmptyStorage
    /\ created' = <<>>
    /\ UNCHANGED <<env, wallet, flows, submitted, auth, gasless, display, responses>>
    /\ UNCHANGED dvars

\* clearStoredCredential() of lib/passkey: the same three removeItem calls
ClearStoredCredential ==
    /\ storage' = EmptyStorage
    /\ created' = <<>>
    /\ UNCHANGED <<env, wallet, flows, submitted, auth, gasless, display, responses>>
    /\ UNCHANGED dvars

\* handleLogout: clearWalletSession() and setWallet(null)
Logout ==
    /\ wallet.present
    /\ storage' = EmptyStorage
    /\ created' = <<>>
    /\ wallet' = NoWallet
    /\ UNCHANGED <<env, flows, submitted, auth, gasless, display, responses>>
    /\ UNCHANGED dvars

\* the page is loaded anew: component state is lost, localStorage is kept
Reload ==
    /\ wallet.present
    /\ run < MaxRuns
    /\ \A f \in FlowIds : flows[f].pc \in {"idle", "done", "failed"}
    /\ \A c \in CallIds : auth[c].pc \in {"idle", "done", "failed"}
    /\ wallet' = NoWallet
    /\ run' = run + 1
    /\ UNCHANGED <<env, storage, flows, submitted, derived, rng>>
    /\ UNCHANGED xvars

(***************************************************************************)
(* Calls of the transaction functions                                      *)
(***************************************************************************)
FEE_SAVED_LAMPORTS == 5000

\* a call that has built its envelope and awaits connection.getLatestBlockhash()
Started(kind, userWallet, userKeypair, feeSponsor, signSponsor, random, memo, tx) ==
    [IdleFlow EXCEPT !.pc = "blockhash", !.kind = kind, !.userWallet = userWallet,
        !.userKeypair = userKeypair, !.feeSponsor = feeSponsor,
        !.signSponsor = signSponsor, !.randomSponsor = random, !.memo = memo,
        !.tx = tx, !.life = <<"Unassembled">>]

\* executeGaslessTransaction: const sponsor = getSponsorWallet(), passed to
\* createMemoTransaction and to sendSponsoredTransaction
ExecuteSponsors ==
    LET sponsor == getSponsorWallet IN
    [fee |-> sponsor.keypair, sign |-> sponsor.keypair, random |-> sponsor.random,
     warned |-> sponsor.warned]

\* executeGaslessTransaction(wallet, memo) up to the await inside
\* createMemoTransaction, whoever calls it
ExecuteCalled(f, memo) ==
    /\ wallet.present
    /\ flows[f].pc = "idle"
    /\ LET sponsors == ExecuteSponsors
           userWallet == PublicKeyFromBase58(wallet.address[1])
       IN
        /\ sponsors.random => rng < MaxKeypairs
        /\ rng' = IF sponsors.random THEN rng + 1 ELSE rng
        /\ flows' = [flows EXCEPT ![f] =
                [Started("execute", userWallet, wallet.keypair, sponsors.fee,
                         sponsors.sign, sponsors.random, memo,
                         AssembleUnsigned(MemoInstruction(userWallet, memo),
                                          userWallet, sponsors.fee))
                 EXCEPT !.warned = sponsors.warned]]
    /\ UNCHANGED <<env, storage, wallet, submitted, derived, run>>
    /\ UNCHANGED <<auth, created, display, responses>>

\* a call executeGaslessTransaction(wallet, memo) whose result the component
\* does not display
ExecuteStart(f, memo) ==
    /\ ExecuteCalled(f, memo)
    /\ UNCHANGED gasless

(***************************************************************************)
(* components/GaslessTransaction                                           *)
(***************************************************************************)
RECURSIVE TrimStart(_)
\* memo.trim(): white space removed at both ends
TrimStart(text) ==
    IF text # <<>> /\ Head(text) \in {9, 10, 13, 32} THEN TrimStart(Tail(text)) ELSE text

RECURSIVE TrimEnd(_)
TrimEnd(text) ==
    IF text # <<>> /\ text[Len(text)] \in {9, 10, 13, 32}
    THEN TrimEnd(SubSeq(text, 1, Len(text) - 1)) ELSE text

Trim(text) == TrimEnd(TrimStart(text))

\* the texts of the memo input: the notes, and a blank one
MemoInputs == Memos \cup {<<32>>}

\* a send button that stays enabled while a send is in flight (a fault)
SendEnabled_whileLoading(memo) ==
    Trim(memo) # <<>>

\* the send button is enabled: disabled={isLoading || !memo.trim()}
SendEnabled(memo) ==
    ~gasless.isLoading /\ Trim(memo) # <<>>

\* a click on the enabled button: handleSendTransaction up to its await of
\* executeGaslessTransaction(wallet, memo)
HandleSendTransaction(f, memo) ==
    /\ SendEnabled(memo)
    /\ ExecuteCalled(f, memo)
    /\ gasless' = [isLoading |-> TRUE,
                   status |-> "Creating transaction with sponsor...",
                   signature |-> <<>>, sponsor |-> <<>>, feeSaved |-> <<>>,
                   error |-> <<>>,
                   pending |-> gasless.pending \cup {f},
                   sends |-> Append(gasless.sends, f)]

\* err.message of a rejected call: a rejection of getLatestBlockhash is
\* rethrown as it is, every later one is wrapped by sendSponsoredTransaction
MessageOfFailure(flow) ==
    IF flow.at = "blockhash" THEN <<flow.error>>
    ELSE <<"Transaction failed: ", flow.error>>

\* handleSendTransaction after its await: the try or the catch branch, then
\* the finally (the status texts are written without their emoji)
SendSettled(f) ==
    /\ f \in gasless.pending
    /\ flows[f].pc \in {"done", "failed"}
    /\ gasless' =
        IF flows[f].pc = "done"
        THEN [gasless EXCEPT !.status = "Transaction confirmed!",
                             !.signature = <<flows[f].result[1].signature>>,
                             !.sponsor = <<flows[f].result[1].sponsor>>,
                             !.feeSaved = <<flows[f].result[1].feeSaved>>,
                             !.isLoading = FALSE,
                             !.pending = @ \ {f}]
        ELSE [gasless EXCEPT !.error = <<MessageOfFailure(flows[f])>>,
                             !.status = "Transaction failed",
                             !.isLoading = FALSE,
                             !.pending = @ \ {f}]
    /\ UNCHANGED <<auth, created, display, responses>>
    /\ UNCHANGED avars
    /\ UNCHANGED dvars

\* a caller's createMemoTransaction(userWallet, memo, sponsorKeypair), to be
\* followed by sendSponsoredTransaction(tx, userKeypair, signKeypair)
CallMemo(f, userWallet, memo, sponsorKeypair, userKeypair, signKeypair) ==
    /\ flows[f].pc = "idle"
    /\ flows' = [flows EXCEPT ![f] =
            Started("memo", userWallet, userKeypair, sponsorKeypair, signKeypair,
                    FALSE, memo,
                    AssembleUnsigned(MemoInstruction(userWallet, memo),
                                     userWallet, sponsorKeypair))]
    /\ UNCHANGED <<env, storage, wallet, submitted>>
    /\ UNCHANGED dvars
    /\ UNCHANGED xvars

\* a caller's createGaslessTransaction(userWallet, recipient, 1, sponsorKeypair),
\* to be followed by sendSponsoredTransaction(tx, userKeypair, signKeypair)
CallTransfer(f, userWallet, recipient, sponsorKeypair, userKeypair, signKeypair) ==
    /\ flows[f].pc = "idle"
    /\ flows' = [flows EXCEPT ![f] =
            Started("transfer", userWallet, userKeypair, sponsorKeypair, signKeypair,
                    FALSE, <<>>,
                    AssembleUnsigned(
                        TransferInstruction(userWallet, recipient, 1 * LAMPORTS_PER_SOL),
                        userWallet, sponsorKeypair))]
    /\ UNCHANGED <<env, storage, wallet, submitted>>
    /\ UNCHANGED dvars
    /\ UNCHANGED xvars

\* the call f after its envelope `tx` was returned and sendSponsoredTransaction
\* ran, with result r, up to the call of sendRawTransaction
AfterSignAndSerialize(flow, tx, r) ==
    [flow EXCEPT !.pc = IF r.ok THEN "sending" ELSE "failed",
                 !.tx = r.tx,
                 !.assembled = <<tx>>,
                 !.life = @ \o <<"Assembled">> \o r.stages,
                 !.error = r.error,
                 !.at = r.at,
                 !.wire = r.wire]

\* the envelope is handed to sendRawTransaction as it is, whether or not
\* signing and serializing succeeded (a fault)
Handed_always(log, f, flow) ==
    Append(log, [flow |-> f,
                 wire |-> [signatures |-> flow.tx.signatures,
                           message |-> compileMessage(flow.tx).message]])

\* a flow whose pc is "sending" has handed its wire bytes to sendRawTransaction
Handed(log, f, flow) ==
    IF flow.pc = "sending" THEN Append(log, [flow |-> f, wire |-> flow.wire[1]])
    ELSE log

\* getLatestBlockhash() resolves with `blockhash`: the envelope is returned by
\* createMemoTransaction / createGaslessTransaction, and sendSponsoredTransaction
\* runs up to the call of sendRawTransaction(transaction.serialize())
BlockhashResolved(f, blockhash) ==
    /\ flows[f].pc = "blockhash"
    /\ flows' = [flows EXCEPT ![f] =
            AfterSignAndSerialize(flows[f], SetBlockhash(flows[f].tx, blockhash),
                SignAndSerialize(SetBlockhash(flows[f].tx, blockhash),
                                 flows[f].userKeypair, flows[f].signSponsor))]
    /\ submitted' = Handed(submitted, f, flows'[f])
    /\ UNCHANGED <<env, storage, wallet>>
    /\ UNCHANGED dvars
    /\ UNCHANGED xvars

\* a rejected sendRawTransaction is retried once instead of rethrown (a fault)
LedgerRejected_retry(f) ==
    /\ flows[f].pc \in {"blockhash", "sending", "confirming"}
    /\ IF flows[f].pc = "sending"
            /\ Cardinality({n \in 1..Len(submitted) : submitted[n].flow = f}) < 2
       THEN /\ submitted' = Handed(submitted, f, flows[f])
            /\ UNCHANGED flows
       ELSE /\ flows' = [flows EXCEPT ![f] =
                    [@ EXCEPT !.pc = "failed", !.error = "network", !.at = flows[f].pc]]
            /\ UNCHANGED submitted
    /\ UNCHANGED <<env, storage, wallet>>
    /\ UNCHANGED dvars
    /\ UNCHANGED xvars

\* an awaited ledger call rejects: getLatestBlockhash, sendRawTransaction or
\* confirmTransaction; the error is rethrown to the caller
LedgerRejected(f) ==
    /\ flows[f].pc \in {"blockhash", "sending", "confirming"}
    /\ flows' = [flows EXCEPT ![f] =
            [@ EXCEPT !.pc = "failed", !.error = "network", !.at = flows[f].pc]]
    /\ UNCHANGED <<env, storage, wallet, submitted>>
    /\ UNCHANGED dvars
    /\ UNCHANGED xvars

\* sendRawTransaction resolves with the transaction signature
SendResolved(f) ==
    /\ flows[f].pc = "sending"
    /\ flows' = [flows EXCEPT ![f] = [@ EXCEPT !.pc = "confirming"]]
    /\ UNCHANGED <<env, storage, wallet, submitted>>
    /\ UNCHANGED dvars
    /\ UNCHANGED xvars

\* the signature returned is that of the latest submission of any call, as
\* if kept in a variable shared by the calls (a fault)
ConfirmResolved_latest(f) ==
    /\ flows[f].pc = "confirming"
    /\ flows' = [flows EXCEPT ![f] =
            [@ EXCEPT !.pc = "done",
                      !.result = <<[signature |->
                                        submitted[Len(submitted)].wire.signatures[1].signature,
                                    sponsor |-> ToBase58(flows[f].signSponsor.publicKey),
                                    feeSaved |-> FEE_SAVED_LAMPORTS]>>]]
    /\ UNCHANGED <<env, storage, wallet, submitted>>
    /\ UNCHANGED dvars
    /\ UNCHANGED xvars

\* confirmTransaction resolves: the signature is returned, and by
\* executeGaslessTransaction with the sponsor address and the fee saved
ConfirmResolved(f) ==
    /\ flows[f].pc = "confirming"
    /\ flows' = [flows EXCEPT ![f] =
            [@ EXCEPT !.pc = "done",
                      !.result = <<[signature |-> flows[f].wire[1].signatures[1].signature,
                                    sponsor |-> ToBase58(flows[f].signSponsor.publicKey),
                                    feeSaved |-> FEE_SAVED_LAMPORTS]>>]]
    /\ UNCHANGED <<env, storage, wallet, submitted>>
    /\ UNCHANGED dvars
    /\ UNCHANGED xvars

(***************************************************************************)
(* app/api/wallet/route: the POST handler                                  *)
(***************************************************************************)
\* request bodies: text that is no JSON, the JSON value null, and objects with
\* the fields action, credentialId and walletAddress (<<>> an absent field)
NoJson == [json |-> FALSE, object |-> FALSE, action |-> <<>>, credentialId |-> <<>>,
           walletAddress |-> <<>>]
JsonNull == [json |-> TRUE, object |-> FALSE, action |-> <<>>, credentialId |-> <<>>,
             walletAddress |-> <<>>]
JsonObject(action, credentialId, walletAddress) ==
    [json |-> TRUE, object |-> TRUE, action |-> action, credentialId |-> credentialId,
     walletAddress |-> walletAddress]

SponsorRequest == JsonObject(<<"get_sponsor">>, <<>>, <<>>)

Bodies ==
    {NoJson, JsonNull, SponsorRequest,
     JsonObject(<<>>, <<>>, <<>>), JsonObject(<<"delete_wallet">>, <<"cred">>, <<"addr">>)}
    \cup {JsonObject(<<"validate_session">>, c, w) :
            c \in {<<>>, <<"">>, <<"cred">>}, w \in {<<>>, <<"">>, <<"addr">>}}

\* NextResponse.json(body, {status}); absent body fields are <<>>
JsonResponse(status, sponsor, isDemo, valid, walletAddress, error) ==
    [status |-> status, sponsor |-> sponsor, isDemo |-> isDemo, valid |-> valid,
     walletAddress |-> walletAddress, error |-> error]

\* a handler that answers with the fallback sponsor without telling (a fault)
handleGetSponsor_unflagged ==
    IF env.present /\ env.text # <<PLACEHOLDER_KEY>> /\ DecodeSecret(env).ok
    THEN [status |-> 200, sponsor |-> <<ToBase58(DecodeSecret(env).keypair.publicKey)>>,
          isDemo |-> <<>>, valid |-> <<>>, walletAddress |-> <<>>, error |-> <<>>]
    ELSE [status |-> 200, sponsor |-> <<ToBase58(KeypairGenerate(rng + 1).publicKey)>>,
          isDemo |-> <<>>, valid |-> <<>>, walletAddress |-> <<>>, error |-> <<>>]

\* handleGetSponsor(): the address of the configured keypair, or of a
\* Keypair.generate() with isDemo: true
handleGetSponsor ==
    IF env.present /\ env.text # <<PLACEHOLDER_KEY>> /\ DecodeSecret(env).ok
    THEN JsonResponse(200, <<ToBase58(DecodeSecret(env).keypair.publicKey)>>, <<>>,
                      <<>>, <<>>, <<>>)
    ELSE JsonResponse(200, <<ToBase58(KeypairGenerate(rng + 1).publicKey)>>, <<TRUE>>,
                      <<>>, <<>>, <<>>)

\* a JavaScript value is falsy: absent (undefined) or the empty string
Falsy(field) == field \in {<<>>, <<"">>}

\* handleValidateSession(body)
handleValidateSession(body) ==
    IF Falsy(body.credentialId) \/ Falsy(body.walletAddress)
    THEN JsonResponse(400, <<>>, <<>>, <<FALSE>>, <<>>, <<"Missing credentials">>)
    ELSE JsonResponse(200, <<>>, <<>>, <<TRUE>>, body.walletAddress, <<>>)

\* POST(request): request.json() and the destructuring of null throw into the
\* catch block; else the switch on action
POST(body) ==
    IF ~body.json \/ ~body.object
    THEN JsonResponse(500, <<>>, <<>>, <<>>, <<>>, <<"Internal server error">>)
    ELSE IF body.action = <<"get_sponsor">> THEN handleGetSponsor
    ELSE IF body.action = <<"validate_session">> THEN handleValidateSession(body)
    ELSE JsonResponse(400, <<>>, <<>>, <<>>, <<>>, <<"Invalid action">>)

\* the request reaches the Keypair.generate() of handleGetSponsor
GeneratesDemoSponsor(body) ==
    /\ body.json
    /\ body.object
    /\ body.action = <<"get_sponsor">>
    /\ ~(env.present /\ env.text # <<PLACEHOLDER_KEY>> /\ DecodeSecret(env).ok)

\* a request with body `body` is answered
Post(body) ==
    /\ Len(responses) < MaxRequests
    /\ GeneratesDemoSponsor(body) => rng < MaxKeypairs
    /\ responses' = Append(responses, [request |-> body, response |-> POST(body)])
    /\ rng' = IF GeneratesDemoSponsor(body) THEN rng + 1 ELSE rng
    /\ UNCHANGED <<derived, run>>
    /\ UNCHANGED avars
    /\ UNCHANGED <<auth, created, gasless, display>>

(***************************************************************************)
(* components/WalletDisplay                                                *)
(***************************************************************************)
\* what connection.getBalance(publicKey) settles with: a number of lamports
\* (whole SOL here, so that the division below is exact), or a rejection
BalanceOutcomes ==
    {[ok |-> TRUE, lamports |-> n * LAMPORTS_PER_SOL] : n \in 0..2}
        \cup {[ok |-> FALSE, lamports |-> 0]}

\* getWalletBalance(address): balance / LAMPORTS_PER_SOL, and 0 when the
\* ledger call rejects
getWalletBalance(outcome) ==
    IF outcome.ok THEN outcome.lamports \div LAMPORTS_PER_SOL ELSE 0

\* loadBalance up to its await: setIsLoading(true) and the call
\* getWalletBalance(wallet.address)
LoadBalance ==
    /\ wallet.present
    /\ Len(display.loads) < MaxLoads
    /\ display' = [display EXCEPT
            !.isLoading = TRUE,
            !.loads = Append(@, [pc |-> "pending", address |-> wallet.address,
                                 value |-> <<>>])]
    /\ UNCHANGED <<auth, created, gasless, responses>>
    /\ UNCHANGED avars
    /\ UNCHANGED dvars

\* useEffect(() => { loadBalance() }, [wallet.address]) after the component
\* was mounted
MountEffect ==
    /\ display.loads = <<>>
    /\ LoadBalance

\* a click on Refresh Balance: the button is never disabled
RefreshBalance ==
    /\ display.loads # <<>>
    /\ LoadBalance

\* loadBalance after its await: the call i of getWalletBalance returns, then
\* setBalance(bal) and, in the finally, setIsLoading(false)
BalanceSettled(i, outcome) ==
    /\ i \in DOMAIN display.loads
    /\ display.loads[i].pc = "pending"
    /\ display' = [balance |-> <<getWalletBalance(outcome)>>,
                   isLoading |-> FALSE,
                   loads |-> [display.loads EXCEPT ![i] =
                                [@ EXCEPT !.pc = "settled",
                                          !.value = <<getWalletBalance(outcome)>>]]]
    /\ UNCHANGED <<auth, created, gasless, responses>>
    /\ UNCHANGED avars
    /\ UNCHANGED dvars

(***************************************************************************)
(* Specifications                                                          *)
(***************************************************************************)
\* PasskeyAuth disables its buttons while one of its calls is in flight
\* (disabled={isLoading})
AuthIdle == \A c \in CallIds : auth[c].pc \notin {"registering", "authenticating"}

\* the application: the PasskeyAuth component is shown while the page has no
\* wallet, its login button while a session is stored; with a wallet the page
\* offers executeGaslessTransaction calls and the logout; the sponsor is asked
\* of the API route
Next ==
    \/ ~wallet.present /\ AuthIdle /\ CreateStart(1)
    \/ \E key \in AppCredentialKeys : CreateLazorkitWallet(1, key)
    \/ CreateRejected(1)
    \/ ~wallet.present /\ AuthIdle /\ hasExistingSession /\ RecoverStart(1)
    \/ \E key \in AppCredentialKeys : RecoverLazorkitWallet(1, CredentialIdOf(key))
    \/ RecoverRejected(1)
    \/ Logout
    \/ Reload
    \/ \E f \in FlowIds, memo \in Memos : ExecuteStart(f, memo)
    \/ \E f \in FlowIds, blockhash \in {"H1", EmptyHash} : BlockhashResolved(f, blockhash)
    \/ \E f \in FlowIds : LedgerRejected(f)
    \/ \E f \in FlowIds : SendResolved(f)
    \/ \E f \in FlowIds : ConfirmResolved(f)
    \/ Post(SponsorRequest)

Spec == Init /\ [][Next]_vars

\* the credential keys of the passkeys the user holds
SessionKeys == {Pattern(3, 1, 1), Pattern(3, 2, 1)}

\* the session functions of lib/lazorkit and lib/passkey called in any order,
\* with calls overlapping at their awaits, and the page's logout and reload
SessionNext ==
    \/ \E c \in CallIds : CreateStart(c)
    \/ \E c \in CallIds, key \in SessionKeys : CreateLazorkitWallet(c, key)
    \/ \E c \in CallIds : CreateRejected(c)
    \/ \E c \in CallIds : RecoverStart(c)
    \/ \E c \in CallIds, key \in SessionKeys :
            RecoverLazorkitWallet(c, CredentialIdOf(key))
    \/ \E c \in CallIds : RecoverRejected(c)
    \/ ClearWalletSession
    \/ ClearStoredCredential
    \/ Logout
    \/ Reload

SessionInit == Init /\ ~env.present

SpecSession == SessionInit /\ [][SessionNext]_vars

\* the page after createLazorkitWallet has returned the wallet of the first
\* credential key in call slot 1, the sponsor secret being unset
UiInit ==
    /\ DInit
    /\ env = SecretAbsent
    /\ storage = StoredSession(CreatedWallet(Pattern(3, 1, 1)))
    /\ wallet = CreatedWallet(Pattern(3, 1, 1))
    /\ flows = [f \in FlowIds |-> IdleFlow]
    /\ submitted = <<>>
    /\ auth = [c \in CallIds |->
                IF c = 1
                THEN [pc |-> "done", kind |-> "create", error |-> "",
                      result |-> <<CreatedWallet(Pattern(3, 1, 1))>>]
                ELSE IdleAuth]
    /\ created = <<StoredSession(CreatedWallet(Pattern(3, 1, 1)))>>
    /\ gasless = InitialGasless
    /\ display = InitialDisplay
    /\ responses = <<>>

\* a step of a call the component waits for, or of the component after it
UiProgress ==
    \/ \E f \in FlowIds, blockhash \in {"H1", EmptyHash} : BlockhashResolved(f, blockhash)
    \/ \E f \in FlowIds : LedgerRejected(f)
    \/ \E f \in FlowIds : SendResolved(f)
    \/ \E f \in FlowIds : ConfirmResolved(f)
    \/ \E f \in FlowIds : SendSettled(f)

\* the GaslessTransaction component: clicks on its button and the calls they
\* start
UiNext ==
    \/ \E f \in FlowIds, memo \in MemoInputs : HandleSendTransaction(f, memo)
    \/ UiProgress

\* every awaited ledger call settles (it resolves, rejects or times out), and
\* the component resumes after a settled await
SpecUi == UiInit /\ [][UiNext]_vars /\ WF_vars(UiProgress)

\* the WalletDisplay component of the page with the wallet just created: its
\* effect, clicks on its Refresh button, and the balance calls settling
DisplayNext ==
    \/ MountEffect
    \/ RefreshBalance
    \/ \E i \in 1..MaxLoads, outcome \in BalanceOutcomes : BalanceSettled(i, outcome)

SpecDisplay == UiInit /\ [][DisplayNext]_vars

\* the wallet API route: POST requests with any of the bodies, under each
\* value of the sponsor secret
RouteInit == Init

RouteNext == \E body \in Bodies : Post(body)

SpecRoute == RouteInit /\ [][RouteNext]_vars

\* callers of the exported functions createMemoTransaction,
\* createGaslessTransaction and sendSponsoredTransaction
ApiNext ==
    \/ \E f \in DirectIds, memo \in Memos, args \in CallerArgs :
            CallMemo(f, args[1], memo, args[2], args[3], args[4])
    \/ \E f \in DirectIds, args \in CallerArgs :
            CallTransfer(f, args[1], OtherKp.publicKey, args[2], args[3], args[4])
    \/ \E f \in DirectIds, blockhash \in Blockhashes : BlockhashResolved(f, blockhash)
    \/ \E f \in DirectIds : LedgerRejected(f)
    \/ \E f \in DirectIds : SendResolved(f)
    \/ \E f \in DirectIds : ConfirmResolved(f)

\* the exported functions called directly; the sponsor secret is unset and the
\* application idle
ApiInit == Init /\ ~env.present

SpecApi == ApiInit /\ [][ApiNext]_vars

\* derivations only; the application is idle and its sponsor secret unset
DeriveInit == Init /\ ~env.present

SpecDerive == DeriveInit /\ [][DNext]_vars

(***************************************************************************)
(* Properties of the sponsored transaction functions (checked under        *)
(* SpecApi)                                                                *)
(***************************************************************************)
\* the calls whose envelope was returned by createMemoTransaction /
\* createGaslessTransaction
Returned == {f \in FlowIds : flows[f].assembled # <<>>}

\* the envelope as it was returned to the caller
EnvelopeOf(f) == flows[f].assembled[1]

\* the required signers of an envelope: the signers its instructions name,
\* and its fee payer
RequiredSigners(tx) == Subjects(tx) \cup {tx.feePayer}

\* the keys with a signature over `message` in a list of signature slots
ValidSigners(slots, message) ==
    {slots[i].publicKey :
        i \in {j \in 1..Len(slots) :
                slots[j].signature = [signer |-> slots[j].publicKey,
                                      message |-> <<message>>]}}

\* the calls that handed wire bytes to sendRawTransaction
Sent == {submitted[n].flow : n \in 1..Len(submitted)}

\* C5: every wire transaction handed to sendRawTransaction carries a valid
\* signature of every required signer of its envelope; a call whose envelope
\* reaches serialize() with an unsigned required slot fails there with an
\* error and hands nothing over.
C5_NoIncompleteSubmission ==
    /\ \A n \in 1..Len(submitted) :
        RequiredSigners(EnvelopeOf(submitted[n].flow))
            \subseteq ValidSigners(submitted[n].wire.signatures, submitted[n].wire.message)
    /\ \A f \in Returned :
        (~(RequiredSigners(EnvelopeOf(f)) \subseteq SignedBy(flows[f].tx)))
            => /\ flows[f].pc = "failed"
               /\ flows[f].error # ""
               /\ f \notin Sent

\* both partialSign calls succeeded, a required signer has not signed, and
\* serialize() threw: nothing was handed over
C5_Witness ==
    \E f \in Returned :
        /\ flows[f].at = "serialize"
        /\ flows[f].error = "Signature verification failed"
        /\ ~(RequiredSigners(EnvelopeOf(f)) \subseteq SignedBy(flows[f].tx))
        /\ f \notin Sent

\* the envelope of call f has a usable blockhash, so that signing is reached
Signable(f) == EnvelopeOf(f).recentBlockhash \notin {UnsetHash, EmptyHash}

\* C6: when the subject signer is not the signer the instruction names, or the
\* sponsor signer is not the fee payer, the call fails with the signer
\* mismatch error ('unknown signer'), no signature of the mismatching signer
\* is recorded and nothing is handed to sendRawTransaction.
C6_SignerMismatchRejected ==
    \A f \in Returned :
        LET subjectWrong == flows[f].userKeypair.publicKey \notin Subjects(EnvelopeOf(f))
            sponsorWrong == flows[f].signSponsor.publicKey # EnvelopeOf(f).feePayer
        IN (Signable(f) /\ (subjectWrong \/ sponsorWrong)) =>
            /\ flows[f].pc = "failed"
            /\ flows[f].error = "unknown signer"
            /\ subjectWrong => flows[f].userKeypair.publicKey \notin SignedBy(flows[f].tx)
            /\ sponsorWrong => flows[f].signSponsor.publicKey \notin SignedBy(flows[f].tx)
            /\ f \notin Sent

\* C7: no envelope returned by createMemoTransaction / createGaslessTransaction
\* has an empty or unset recent blockhash: assembling with one fails.
C7_EmptyBlockhashRejectedAtAssembly ==
    \A f \in Returned : Signable(f)

\* the stages of the envelope lifecycle, in order
LifecycleOrder ==
    <<"Unassembled", "Assembled", "PartiallySigned", "FullySigned", "Serialized">>

\* C8: the stages an envelope has gone through are an initial part of
\* Unassembled, Assembled, PartiallySigned (subject only), FullySigned,
\* Serialized: none skipped, none revisited, the sponsor never signing before
\* the subject; and a serialized envelope is the one that was serialized.
C8_LifecycleOrder ==
    \A f \in FlowIds :
        /\ Len(flows[f].life) <= Len(LifecycleOrder)
        /\ flows[f].life = SubSeq(LifecycleOrder, 1, Len(flows[f].life))
        /\ flows[f].wire # <<>> =>
            /\ flows[f].wire[1].signatures = flows[f].tx.signatures
            /\ flows[f].tx.instructions = EnvelopeOf(f).instructions
            /\ flows[f].tx.feePayer = EnvelopeOf(f).feePayer
            /\ flows[f].tx.recentBlockhash = EnvelopeOf(f).recentBlockhash

\* C9: the fee payer of every assembled envelope is the sponsor keypair's
\* identity and differs from the subject (user wallet) identity; in an
\* executeGaslessTransaction call the keypair that signs second is the one
\* recorded as fee payer.
C9_FeePayerIsDistinctSponsor ==
    \A f \in FlowIds :
        flows[f].kind # "none" =>
            /\ flows[f].tx.feePayer = flows[f].feeSponsor.publicKey
            /\ flows[f].tx.feePayer # flows[f].userWallet
            /\ flows[f].kind = "execute" => flows[f].signSponsor = flows[f].feeSponsor

RECURSIVE Utf8Decode(_)
\* the scalar values a well-formed UTF-8 byte sequence encodes
Utf8Decode(bytes) ==
    IF bytes = <<>> THEN <<>>
    ELSE IF bytes[1] < 128
         THEN <<bytes[1]>> \o Utf8Decode(SubSeq(bytes, 2, Len(bytes)))
    ELSE IF bytes[1] < 224
         THEN <<(bytes[1] - 192) * 64 + (bytes[2] - 128)>>
              \o Utf8Decode(SubSeq(bytes, 3, Len(bytes)))
    ELSE IF bytes[1] < 240
         THEN <<(bytes[1] - 224) * 4096 + (bytes[2] - 128) * 64 + (bytes[3] - 128)>>
              \o Utf8Decode(SubSeq(bytes, 4, Len(bytes)))
    ELSE <<(bytes[1] - 240) * 262144 + (bytes[2] - 128) * 4096
            + (bytes[3] - 128) * 64 + (bytes[4] - 128)>>
         \o Utf8Decode(SubSeq(bytes, 5, Len(bytes)))

\* the calls that build an envelope for a note
NoteFlows == {f \in FlowIds : flows[f].kind \in {"memo", "execute"}}

\* C10: the envelope built for a note has exactly one instruction, to the memo
\* program, with exactly one account, the subject, signer and not writable,
\* and the note text as its data (its UTF-8 bytes, decoding to the same text);
\* the required signers of the compiled envelope are exactly the subject and
\* the fee payer.
C10_MemoEnvelope ==
    \A f \in NoteFlows :
        LET tx == flows[f].tx IN
        /\ Len(tx.instructions) = 1
        /\ tx.instructions[1].programId =
                <<"pub", <<"program", "MemoSq4gqABAXKb96qnH8TysNcWxMyWCqXgDLGmfcHr", "", "">>>>
        /\ tx.instructions[1].keys =
                <<[pubkey |-> flows[f].userWallet, isSigner |-> TRUE, isWritable |-> FALSE]>>
        /\ Utf8Decode(tx.instructions[1].data) = flows[f].memo
        /\ \A b \in 1..Len(tx.instructions[1].data) : tx.instructions[1].data[b] \in 0..255
        /\ (f \in Returned /\ Signable(f)) =>
            {tx.signatures[i].publicKey : i \in 1..Len(tx.signatures)}
                = {flows[f].userWallet, tx.feePayer}

\* a note with characters outside ASCII was built into an envelope, signed by
\* both signers and handed over
C10_Witness ==
    \E f \in NoteFlows :
        /\ flows[f].memo = <<233, 128512>>
        /\ flows[f].tx.instructions[1].data = <<195, 169, 240, 159, 152, 128>>
        /\ flows[f].userWallet # flows[f].tx.feePayer
        /\ flows[f].pc = "sending"

(***************************************************************************)
(* Properties of the sponsor resolution (checked under Spec)               *)
(***************************************************************************)
\* the executeGaslessTransaction calls made so far
Executions == {f \in FlowIds : flows[f].kind = "execute"}

\* the get_sponsor requests answered so far
SponsorAnswers ==
    {n \in 1..Len(responses) : responses[n].request.action = <<"get_sponsor">>}

\* a secret is configured, is not the placeholder and decodes
SecretUsable ==
    /\ env.present
    /\ env.text # <<"your_base58_encoded_private_key_here">>
    /\ DecodeSecret(env).ok

C12_FallbackObservable ==
    \A f \in Executions :
        flows[f].randomSponsor =>
            \/ flows[f].warned
            \/ /\ flows[f].result # <<>>
               /\ "ephemeral" \in DOMAIN flows[f].result[1]

(***************************************************************************)
(* Properties of executeGaslessTransaction (checked under Spec)            *)
(***************************************************************************)
\* the wire transactions call f handed to sendRawTransaction
SubmissionsOf(f) == {n \in 1..Len(submitted) : submitted[n].flow = f}

\* C13: one executeGaslessTransaction call hands at most one wire transaction
\* to sendRawTransaction, also when sending or confirming failed; a call in
\* which an error was raised is rejected with it and returns no value, and a
\* call that returned a value raised no error and submitted exactly once.
C13_SubmitOnceAndPropagate ==
    \A f \in Executions :
        /\ Cardinality(SubmissionsOf(f)) <= 1
        /\ flows[f].error # "" => (flows[f].pc = "failed" /\ flows[f].result = <<>>)
        /\ flows[f].pc = "failed" => (flows[f].error # "" /\ flows[f].result = <<>>)
        /\ flows[f].result # <<>> =>
            /\ flows[f].pc = "done"
            /\ flows[f].error = ""
            /\ Cardinality(SubmissionsOf(f)) = 1

\* a call was rejected because sendRawTransaction or confirmTransaction
\* rejected, after handing over one wire transaction
C13_Witness ==
    \E f \in Executions :
        /\ flows[f].pc = "failed"
        /\ flows[f].at \in {"sending", "confirming"}
        /\ flows[f].error = "network"
        /\ Cardinality(SubmissionsOf(f)) = 1

\* C14: a step of an executeGaslessTransaction call that ends before
\* sendRawTransaction is invoked (the call started, awaits the blockhash, or
\* failed while building or signing) changes neither the session storage nor
\* what was handed to the ledger.
C14_NoEffectBeforeSubmit ==
    [][\A f \in FlowIds :
        (/\ flows'[f] # flows[f]
         /\ flows'[f].kind = "execute"
         /\ flows[f].pc \in {"idle", "blockhash"}
         /\ flows'[f].pc \in {"blockhash", "failed"})
        => (storage' = storage /\ submitted' = submitted)]_vars

\* a call failed before sendRawTransaction while a session is stored: the
\* stored session is the one created and nothing was handed over for the call
C14_Witness ==
    \E f \in Executions :
        /\ flows[f].pc = "failed"
        /\ flows[f].at \in {"blockhash", "subject"}
        /\ created # <<>>
        /\ storage = created[1]
        /\ SubmissionsOf(f) = {}

\* C15: whatever the interleaving of concurrent executeGaslessTransaction
\* calls, the wire transaction a call submits holds that call's note, fee payer
\* and the signatures of that call's subject and sponsor over that message,
\* and the value a call returns holds the signature and sponsor of its own
\* envelope.
C15_FlowsOwnEnvelope ==
    /\ \A n \in 1..Len(submitted) :
        LET f == submitted[n].flow
            w == submitted[n].wire
        IN /\ Len(w.message.instructions) = 1
           /\ Utf8Decode(w.message.instructions[1].data) = flows[f].memo
           /\ w.message.accountKeys[1] = flows[f].feeSponsor.publicKey
           /\ {w.signatures[i].publicKey : i \in 1..Len(w.signatures)}
                = {flows[f].userWallet, flows[f].feeSponsor.publicKey}
           /\ \A i \in 1..Len(w.signatures) :
                /\ w.signatures[i].signature.signer = w.signatures[i].publicKey
                /\ w.signatures[i].signature.message = <<w.message>>
    /\ \A f \in Executions :
        flows[f].result # <<>> =>
            /\ \E n \in SubmissionsOf(f) :
                flows[f].result[1].signature = submitted[n].wire.signatures[1].signature
            /\ flows[f].result[1].signature.signer = flows[f].feeSponsor.publicKey
            /\ flows[f].result[1].sponsor = <<"b58", flows[f].feeSponsor.publicKey>>

\* two calls with different notes and different (random) sponsors have both
\* submitted, in the order opposite to their completion: the call that
\* submitted second has returned, the other is still waiting
C15_Witness ==
    \E f, g \in Executions :
        /\ f # g
        /\ flows[f].memo # flows[g].memo
        /\ flows[f].feeSponsor # flows[g].feeSponsor
        /\ Len(submitted) = 2
        /\ submitted[1].flow = f
        /\ submitted[2].flow = g
        /\ flows[g].pc = "done"
        /\ flows[f].pc \in {"sending", "confirming"}

(***************************************************************************)
(* Properties of the wallet session (C17 checked under Spec, the others    *)
(* under SpecSession)                                                      *)
(***************************************************************************)
\* the wallets the calls of createLazorkitWallet / recoverLazorkitWallet returned
ReturnedBy(kind) ==
    {auth[c].result[1] : c \in {d \in CallIds : auth[d].kind = kind /\ auth[d].result # <<>>}}

\* a keypair drawn by Keypair.generate()
IsRandomKeypair(keypair) ==
    Len(keypair.secret) = 2 /\ keypair.secret \in {<<"rand", n>> : n \in 1..(MaxKeypairs + 1)}

\* the executeGaslessTransaction calls made on a recovered wallet
OnRecovered == {f \in Executions : IsRandomKeypair(flows[f].userKeypair)}

SessionOfKey(key) ==
    [passkey_credential_id |-> <<<<"credential", key>>>>,
     wallet_address |-> <<<<"b58", <<"pub", DeriveSeed(key)>>>>>>,
     wallet_public_key |-> <<<<"b58", <<"pub", DeriveSeed(key)>>>>>>]

\* C18: in every reachable state of the session storage the three items
\* passkey_credential_id, wallet_address and wallet_public_key are all present
\* or all absent; present, they are the items of one createLazorkitWallet call;
\* and hasExistingSession() is true exactly when they are present.
C18_SessionAllOrNone ==
    /\ \/ storage = [passkey_credential_id |-> <<>>, wallet_address |-> <<>>,
                     wallet_public_key |-> <<>>]
       \/ \E key \in SessionKeys : storage = SessionOfKey(key)
    /\ hasExistingSession <=> storage.wallet_address # <<>>
    /\ hasExistingSession <=> storage.passkey_credential_id # <<>>
    /\ hasExistingSession <=> storage.wallet_public_key # <<>>

\* two createLazorkitWallet calls with different passkeys overlapped and both
\* returned; the session stored is that of one of them
C18_Witness ==
    /\ hasExistingSession
    /\ \A c \in CallIds : auth[c].kind = "create" /\ auth[c].pc = "done"
    /\ \E c, d \in CallIds : auth[c].result # auth[d].result
    /\ \E c \in CallIds : storage.wallet_address = auth[c].result[1].address

\* C19: a createLazorkitWallet call whose passkey registration fails rejects
\* and leaves the session storage as it was; no step of recoverLazorkitWallet
\* writes to storage; recoverLazorkitWallet starts the ceremony whatever is
\* stored and looks the address up when the ceremony has succeeded: it then
\* rejects with 'No wallet found' if none is stored, and else returns the
\* address stored at that moment.
C19_FailedAuthKeepsStorage ==
    [][\A c \in CallIds :
        /\ (auth[c].pc = "registering" /\ auth'[c].pc = "failed")
            => (storage' = storage /\ auth'[c].result = <<>> /\ auth'[c].error # "")
        /\ (auth'[c] # auth[c] /\ auth'[c].kind = "recover") => storage' = storage
        /\ (auth[c].pc = "authenticating" /\ auth'[c].pc # "authenticating"
                /\ auth'[c].error # "Failed to authenticate with passkey")
            => IF storage.wallet_address = <<>>
               THEN /\ auth'[c].pc = "failed"
                    /\ auth'[c].error = "No wallet found. Please create a new wallet."
                    /\ auth'[c].result = <<>>
               ELSE /\ auth'[c].pc = "done"
                    /\ auth'[c].result[1].address = storage.wallet_address]_vars

\* with a session stored, a createLazorkitWallet call has failed in
\* registration, and a recoverLazorkitWallet call whose ceremony succeeded has
\* been rejected with 'No wallet found' (nothing was stored when it looked)
C19_Witness ==
    /\ hasExistingSession
    /\ created # <<>>
    /\ storage = created[1]
    /\ \E c, d \in CallIds :
        /\ auth[c].kind = "create"
        /\ auth[c].pc = "failed"
        /\ auth[d].kind = "recover"
        /\ auth[d].error = "No wallet found. Please create a new wallet."

(***************************************************************************)
(* Properties of the GaslessTransaction component (checked under SpecUi)   *)
(***************************************************************************)
\* what the component shows is consistent with the sends made
GaslessConsistent ==
    /\ ~(gasless.signature # <<>> /\ gasless.error # <<>>)
    /\ gasless.pending # {} =>
        /\ gasless.isLoading
        /\ gasless.signature = <<>>
        /\ gasless.sponsor = <<>>
        /\ gasless.feeSaved = <<>>
    /\ gasless.pending = {} => ~gasless.isLoading
    /\ gasless.signature # <<>> =>
        /\ gasless.sends # <<>>
        /\ flows[gasless.sends[Len(gasless.sends)]].pc = "done"
        /\ gasless.signature
            = <<flows[gasless.sends[Len(gasless.sends)]].result[1].signature>>

PendingLoads == {i \in DOMAIN display.loads : display.loads[i].pc = "pending"}

\* C21: in the WalletDisplay component, when balance loads overlap, isLoading
\* is false only when no balance request is in flight, and once no request is
\* in flight the balance displayed is the result of the most recently started
\* request for the wallet address, never that of an earlier request that
\* completed later.
C21_LatestBalanceShown ==
    /\ ~display.isLoading => PendingLoads = {}
    /\ (display.loads # <<>> /\ PendingLoads = {}) =>
        /\ display.loads[Len(display.loads)].address = wallet.address
        /\ display.balance = display.loads[Len(display.loads)].value

(***************************************************************************)
(* Properties of the wallet API route (checked under SpecRoute)            *)
(***************************************************************************)
\* a sponsor field holding the address of a Keypair.generate() keypair
IsDemoAddress(sponsor) ==
    /\ Len(sponsor) = 1
    /\ Len(sponsor[1][2][2]) = 2
    /\ sponsor[1] \in {ToBase58(KeypairGenerate(n).publicKey) : n \in 1..(MaxKeypairs + 1)}

\* the answer `a` is the one the route owes the request `q`
RightAnswer(q, a) ==
    /\ ~q.json => a.status = 500 /\ a.error = <<"Internal server error">>
    /\ (q.object /\ q.action = <<"validate_session">>) =>
        IF q.credentialId \notin {<<>>, <<"">>} /\ q.walletAddress \notin {<<>>, <<"">>}
        THEN a.status = 200 /\ a.valid = <<TRUE>> /\ a.walletAddress = q.walletAddress
        ELSE a.status = 400 /\ a.valid = <<FALSE>>
    /\ (q.object /\ q.action = <<"get_sponsor">>) =>
        /\ a.status = 200
        /\ Len(a.sponsor) = 1
        /\ a.isDemo = <<TRUE>> <=> IsDemoAddress(a.sponsor)
        /\ a.isDemo # <<TRUE>> =>
            /\ SecretUsable
            /\ a.sponsor = <<ToBase58(DecodeSecret(env).keypair.publicKey)>>
    /\ (q.object /\ q.action \notin {<<"get_sponsor">>, <<"validate_session">>}) =>
        a.status = 400 /\ a.error = <<"Invalid action">>

\* equal requests get equal answers, up to the address of a demo sponsor
SameAnswer(a, b) ==
    /\ a.status = b.status
    /\ a.isDemo = b.isDemo
    /\ a.valid = b.valid
    /\ a.walletAddress = b.walletAddress
    /\ a.error = b.error
    /\ a.isDemo # <<TRUE>> => a.sponsor = b.sponsor

RouteAnswers ==
    /\ \A n \in 1..Len(responses) : RightAnswer(responses[n].request, responses[n].response)
    /\ \A m, n \in 1..Len(responses) :
        responses[m].request = responses[n].request
            => SameAnswer(responses[m].response, responses[n].response)

\* C22: the POST handler of the wallet API answers every request with exactly
\* one response and keeps no state between requests: validate_session is
\* answered valid: true with the given walletAddress exactly when credentialId
\* and walletAddress are both non-empty, else status 400 with valid: false;
\* get_sponsor is answered a sponsor address, with isDemo: true exactly when it
\* is that of the random fallback sponsor; any other action is answered status
\* 400 'Invalid action'; a body that is no JSON is answered status 500.
C22_RouteAnswers ==
    /\ []RouteAnswers
    /\ [][/\ Len(responses') = Len(responses) + 1
          /\ UNCHANGED <<env, storage, wallet, flows, submitted, auth, created>>]_vars

\* a validate_session request was answered valid, then a get_sponsor request
\* was answered with a demo sponsor
C22_Witness ==
    /\ Len(responses) = 2
    /\ responses[1].request.action = <<"validate_session">>
    /\ responses[1].response.valid = <<TRUE>>
    /\ responses[2].request.action = <<"get_sponsor">>
    /\ responses[2].response.isDemo = <<TRUE>>

====
